---- MODULE Spec2Model ----
(***************************************************************************)
(* shellyctl: a command line client for Shelly smart plugs.                *)
(*                                                                         *)
(* The model covers the three device clients of the repository (the legacy *)
(* shellyPlug, shellyPlugV1 and shellyPlugV2), their shared transport      *)
(* (get), the construction functions and the rendering operations.  One    *)
(* behaviour is one use of a client: the flags are parsed (Init), a client *)
(* is constructed, one operation is called on it; or the flags are parsed  *)
(* and the on or off command runs as a whole.  The device is the           *)
(* environment: every get draws its response from a small set.             *)
(*                                                                         *)
(* Go pointers are sequences of length at most one (<<>> is nil), JSON     *)
(* values that may be absent or ill-typed are the strings of JBool, and    *)
(* floating point values are exact rationals <<numerator, denominator>>.   *)
(***************************************************************************)
EXTENDS Integers, Sequences, FiniteSets, TLC

\* ---------------------------------------------------------------- bounds
MaxList == 2
MaxTotal == 1

\* ------------------------------------------------------------ primitives
Nil == <<>>
Ptr(x) == <<x>>
Deref(p) == p[1]

NoQueries == <<>>
TurnQuery(v) == << <<"turn", v>> >>

IpString == "192.168.1.1"

Hosts == { [name |-> "", port |-> ""],
           [name |-> IpString, port |-> ""],
           [name |-> IpString, port |-> "8080"] }

\* url.URL.Host == "" : neither a host name nor a port
HostIsEmpty(h) == h.name = "" /\ h.port = ""

\* url.URL.Hostname(): the host without the port
Hostname(h) == h.name

UserPassword(u, p) == Ptr([username |-> u, password |-> p])

Userinfos == { Nil, UserPassword("admin", "secret") }

Addresses == [Scheme : {"http"}, Host : Hosts, User : Userinfos]

\* ------------------------------------------------- the device's responses
JBool == {"absent", "true", "false", "badtype"}

\* energy counters in steps that print as one hundredth of a kWh on the
\* first generation (600 watt-minutes); a device may send a negative number
Totals == { 600 * t : t \in (0 - 1) .. MaxTotal }
Powers == {2}

relayV1 == [IsOn : BOOLEAN, HasTimer : BOOLEAN]
meterV1 == [Power : Powers, Total : Totals]

DefaultRelay == [IsOn |-> FALSE, HasTimer |-> FALSE]
DefaultMeter == [Power |-> 0, Total |-> 0]

\* lists of 0..MaxList elements; the clients read the length and element 0
ListsOf(S, d) == { <<>> } \cup
    { [i \in 1..n |-> IF i = 1 THEN x ELSE d] : x \in S, n \in 1..MaxList }

ActiveEnergyV2 == [Total : Totals]
TemperatureStatusV2 == [TC : {21}]
PtrsTo(S) == { Nil } \cup { Ptr(x) : x \in S }

SwitchStatusV2 == [Output : BOOLEAN, APower : {2},
                   Voltage : {230}, Current : {1}, Freq : {50},
                   AEnergy : PtrsTo(ActiveEnergyV2),
                   Temperature : PtrsTo(TemperatureStatusV2)]
SystemStatusV2 == [Stable : PtrsTo({"1.4.4"})]
WifiStatusV2 == [RSSI : {0 - 59}]

\* A response body: syntax says whether it is a JSON document at all; the
\* other fields are the keys a target schema may read.
EmptyBody == [syntax |-> TRUE, ison |-> "absent", output |-> "absent",
              relays |-> <<>>, meters |-> <<>>, cloud |-> FALSE,
              sys |-> Nil, sw |-> Nil, wifi |-> Nil]

Garbage == [EmptyBody EXCEPT !.syntax = FALSE]

RelayBodies == { Garbage } \cup
    { [EmptyBody EXCEPT !.ison = i, !.output = o] : i \in JBool, o \in JBool }

StatusV1Bodies == { Garbage } \cup
    { [EmptyBody EXCEPT !.relays = r, !.meters = m, !.cloud = c] :
        r \in ListsOf(relayV1, DefaultRelay), m \in ListsOf(meterV1, DefaultMeter),
        c \in BOOLEAN }

StatusV2Bodies == { Garbage } \cup
    { [EmptyBody EXCEPT !.sys = s, !.sw = w, !.wifi = f] :
        s \in PtrsTo(SystemStatusV2), w \in PtrsTo(SwitchStatusV2),
        f \in PtrsTo(WifiStatusV2) }

InfoBodies == { Garbage, EmptyBody }

OkStatuses == {200}
OtherStatuses == {399, 404}

\* What the device (or the network) answers to one GET: no connection, or
\* a status code and a body.  Every body comes with 200; the other codes come
\* with a few bodies, among them ones that are valid for the target.
Responses(bodies) ==
    { [connErr |-> Ptr("connection refused"), status |-> 0, body |-> EmptyBody] }
    \cup [connErr : {Nil}, status : OkStatuses, body : bodies]
    \cup [connErr : {Nil}, status : OtherStatuses, body : {Garbage, EmptyBody, [EmptyBody EXCEPT !.ison = "true"]}]

\* ---------------------------------------------------------------- errors
NoUrl == [host |-> "", path |-> "", query |-> NoQueries]

NoErr == [body |-> EmptyBody, type |-> "nil", msg |-> "", cause |-> "", url |-> NoUrl]

\* an error returned by the HTTP client: the transport's cause
CauseError(c) == [NoErr EXCEPT !.type = "cause", !.cause = c]

\* fmt.Errorf(msg) without arguments
Errorf(m) == [NoErr EXCEPT !.type = "errorf", !.msg = m]


\* fmt.Errorf("%s: %s", resp.Request.URL, resp.String())
HttpError(u, b) == [NoErr EXCEPT !.type = "errorf", !.msg = "%s: %s", !.url = u, !.body = b]

\* fmt.Errorf("invalid response body: %v", err)
BodyError(c) == [NoErr EXCEPT !.type = "errorf", !.msg = "invalid response body: %v", !.cause = c]

\* resty Response.IsError(): status code above 399
IsError(resp) == resp.status > 399

\* ------------------------------------------------------- wire schema types
\* json.Unmarshal(body, &res) returns [err, val]: err is "" on success, val
\* is res with the keys of the target type that the body carries filled in.
\* An absent key leaves the field as it was; keys the target type does not
\* declare (such as "output" for the relay state types) are ignored.

ZeroRelay == [IsOn |-> FALSE]

\* Relay (legacy): `json:"ison"`
UnmarshalRelay(body, res) ==
    IF ~body.syntax THEN [err |-> "syntax", val |-> res]
    ELSE IF body.ison = "badtype" THEN [err |-> "type", val |-> res]
    ELSE IF body.ison = "absent" THEN [err |-> "", val |-> res]
    ELSE [err |-> "", val |-> [res EXCEPT !.IsOn = (body.ison = "true")]]

\* relayV1: `json:"ison"`
UnmarshalRelayV1(body, res) ==
    IF ~body.syntax THEN [err |-> "syntax", val |-> res]
    ELSE IF body.ison = "badtype" THEN [err |-> "type", val |-> res]
    ELSE IF body.ison = "absent" THEN [err |-> "", val |-> res]
    ELSE [err |-> "", val |-> [res EXCEPT !.IsOn = (body.ison = "true")]]

\* SwitchStateV2: `json:"ison"`
UnmarshalSwitchStateV2(body, res) ==
    IF ~body.syntax THEN [err |-> "syntax", val |-> res]
    ELSE IF body.ison = "badtype" THEN [err |-> "type", val |-> res]
    ELSE IF body.ison = "absent" THEN [err |-> "", val |-> res]
    ELSE [err |-> "", val |-> [res EXCEPT !.IsOn = (body.ison = "true")]]

ZeroStatusV1 == [Relays |-> <<>>, Meters |-> <<>>, CloudEnabled |-> FALSE]

\* DeviceStatus (legacy): `json:"relays"`, `json:"meters"`, `json:"cloud"`
UnmarshalDeviceStatus(body, res) ==
    IF ~body.syntax THEN [err |-> "syntax", val |-> res]
    ELSE [err |-> "", val |-> [Relays |-> body.relays, Meters |-> body.meters,
                           CloudEnabled |-> body.cloud]]

\* deviceStatusV1: `json:"relays"`, `json:"meters"`, `json:"cloud"`
UnmarshalDeviceStatusV1(body, res) ==
    IF ~body.syntax THEN [err |-> "syntax", val |-> res]
    ELSE [err |-> "", val |-> [Relays |-> body.relays, Meters |-> body.meters,
                           CloudEnabled |-> body.cloud]]

ZeroStatusV2 == [System |-> Nil, Switch1 |-> Nil, WiFi |-> Nil]

\* DeviceStatusV2: `json:"sys"`, `json:"switch:0"`, `json:"wifi"`
UnmarshalDeviceStatusV2(body, res) ==
    IF ~body.syntax THEN [err |-> "syntax", val |-> res]
    ELSE [err |-> "", val |-> [System |-> body.sys, Switch1 |-> body.sw, WiFi |-> body.wifi]]

ZeroInfo == [Type |-> ""]

\* DeviceInfo, deviceInfoV1 and DeviceInfoV2: strings only, nothing a client
\* branches on
UnmarshalDeviceInfo(body, res) ==
    IF ~body.syntax THEN [err |-> "syntax", val |-> res]
    ELSE [err |-> "", val |-> res]

\* json.Unmarshal(body, response): response is a pointer to a value of one of
\* the types above; type names the type it points to
Unmarshal(body, res, type) ==
    CASE type = "Relay" -> UnmarshalRelay(body, res)
      [] type = "relayV1" -> UnmarshalRelayV1(body, res)
      [] type = "SwitchStateV2" -> UnmarshalSwitchStateV2(body, res)
      [] type = "DeviceStatus" -> UnmarshalDeviceStatus(body, res)
      [] type = "deviceStatusV1" -> UnmarshalDeviceStatusV1(body, res)
      [] type = "DeviceStatusV2" -> UnmarshalDeviceStatusV2(body, res)
      [] type \in {"DeviceInfo", "deviceInfoV1", "DeviceInfoV2"} ->
             UnmarshalDeviceInfo(body, res)

\* ------------------------------------------------------------- transport
\* The GET a client sends, and what get returns once the device answered it
\* with resp: [err, val, reqs, logged].  res is the value response points to
\* and type its type.  reqs are the requests sent (always
\* exactly one), logged the number of bodies written to the diagnostic log.

shellyPlug_get(s, path, queries, res, type, resp) ==
    LET auth == IF s.address.User # Nil
                THEN Ptr([username |-> Deref(s.address.User).username,
                          password |-> Deref(s.address.User).password])
                ELSE Nil
        req == [url |-> [host |-> Hostname(s.address.Host), path |-> path,
                         query |-> queries],
                auth |-> auth]
    IN IF resp.connErr # Nil
       THEN [err |-> CauseError(Deref(resp.connErr)), val |-> res,
             reqs |-> <<req>>, logged |-> 0]
       ELSE IF IsError(resp)
       THEN [err |-> HttpError(req.url, resp.body), val |-> res,
             reqs |-> <<req>>, logged |-> 0]
       ELSE LET u == Unmarshal(resp.body, res, type)
            IN IF u.err # ""
               THEN [err |-> BodyError(u.err), val |-> u.val,
                     reqs |-> <<req>>, logged |-> 0]
               ELSE [err |-> NoErr, val |-> u.val,
                     reqs |-> <<req>>, logged |-> 0]

\* variant: get decodes the body before it looks at the status code
shellyPlugV1_get_DecodeFirst(s, path, queries, res, type, resp) ==
    LET auth == IF s.address.User # Nil
                THEN Ptr([username |-> Deref(s.address.User).username,
                          password |-> Deref(s.address.User).password])
                ELSE Nil
        req == [url |-> [host |-> Hostname(s.address.Host), path |-> path,
                         query |-> queries],
                auth |-> auth]
    IN IF resp.connErr # Nil
       THEN [err |-> CauseError(Deref(resp.connErr)), val |-> res,
             reqs |-> <<req>>, logged |-> 0]
       ELSE LET u == Unmarshal(resp.body, res, type)
            IN IF u.err # ""
               THEN [err |-> BodyError(u.err), val |-> u.val,
                     reqs |-> <<req>>, logged |-> 0]
               ELSE IF IsError(resp)
               THEN [err |-> HttpError(req.url, resp.body), val |-> res,
                     reqs |-> <<req>>, logged |-> 0]
               ELSE [err |-> NoErr, val |-> u.val,
                     reqs |-> <<req>>, logged |-> 0]

shellyPlugV1_get(s, path, queries, res, type, resp) ==
    LET auth == IF s.address.User # Nil
                THEN Ptr([username |-> Deref(s.address.User).username,
                          password |-> Deref(s.address.User).password])
                ELSE Nil
        req == [url |-> [host |-> Hostname(s.address.Host), path |-> path,
                         query |-> queries],
                auth |-> auth]
    IN IF resp.connErr # Nil
       THEN [err |-> CauseError(Deref(resp.connErr)), val |-> res,
             reqs |-> <<req>>, logged |-> 0]
       ELSE IF IsError(resp)
       THEN [err |-> HttpError(req.url, resp.body), val |-> res,
             reqs |-> <<req>>, logged |-> 0]
       ELSE LET u == Unmarshal(resp.body, res, type)
            IN IF u.err # ""
               THEN [err |-> BodyError(u.err), val |-> u.val,
                     reqs |-> <<req>>, logged |-> 0]
               ELSE [err |-> NoErr, val |-> u.val,
                     reqs |-> <<req>>, logged |-> 0]

\* the second generation client also logs the body before decoding it
shellyPlugV2_get(s, path, queries, res, type, resp) ==
    LET auth == IF s.address.User # Nil
                THEN Ptr([username |-> Deref(s.address.User).username,
                          password |-> Deref(s.address.User).password])
                ELSE Nil
        req == [url |-> [host |-> Hostname(s.address.Host), path |-> path,
                         query |-> queries],
                auth |-> auth]
    IN IF resp.connErr # Nil
       THEN [err |-> CauseError(Deref(resp.connErr)), val |-> res,
             reqs |-> <<req>>, logged |-> 0]
       ELSE IF IsError(resp)
       THEN [err |-> HttpError(req.url, resp.body), val |-> res,
             reqs |-> <<req>>, logged |-> 0]
       ELSE LET u == Unmarshal(resp.body, res, type)
            IN IF u.err # ""
               THEN [err |-> BodyError(u.err), val |-> u.val,
                     reqs |-> <<req>>, logged |-> 1]
               ELSE [err |-> NoErr, val |-> u.val,
                     reqs |-> <<req>>, logged |-> 1]

\* ---------------------------------------------------------- construction
\* (Plug, error): plug is Nil or a pointer to the client; reqs are the
\* requests sent while constructing it

NewShellyPlug(address) ==
    IF HostIsEmpty(address.Host)
    THEN [err |-> Errorf("invalid address"), reqs |-> <<>>, plug |-> Nil]
    ELSE [err |-> NoErr, reqs |-> <<>>,
          plug |-> Ptr([address |-> address, kind |-> "shellyPlug"])]

\* variant: the constructor accepts an address without host
newShellyV1Plug_AnyHost(address) ==
    [err |-> NoErr, reqs |-> <<>>,
     plug |-> Ptr([address |-> address, kind |-> "shellyPlugV1"])]

newShellyV1Plug(address) ==
    IF HostIsEmpty(address.Host)
    THEN [err |-> Errorf("invalid address"), reqs |-> <<>>, plug |-> Nil]
    ELSE [err |-> NoErr, reqs |-> <<>>,
          plug |-> Ptr([address |-> address, kind |-> "shellyPlugV1"])]

newShellyV2Plug(address) ==
    IF HostIsEmpty(address.Host)
    THEN [err |-> Errorf("invalid address"), reqs |-> <<>>, plug |-> Nil]
    ELSE [err |-> NoErr, reqs |-> <<>>,
          plug |-> Ptr([address |-> address, kind |-> "shellyPlugV2"])]

\* variant: credentials are attached when either flag is set
deviceUrl_Either(usr, pwd) ==
    [Scheme |-> "http",
     Host |-> [name |-> IpString, port |-> ""],
     User |-> IF usr # "" \/ pwd # "" THEN UserPassword(usr, pwd) ELSE Nil]

\* deviceUrl(): the address built from the flags
deviceUrl(usr, pwd) ==
    [Scheme |-> "http",
     Host |-> [name |-> IpString, port |-> ""],
     User |-> IF usr # "" /\ pwd # "" THEN UserPassword(usr, pwd) ELSE Nil]

\* newPlug(): the client the commands use
newPlug(v2, usr, pwd) ==
    IF v2
    THEN [err |-> Errorf("shelly V2+ devices are not supported yet"), reqs |-> <<>>,
          plug |-> Nil]
    ELSE newShellyV1Plug(deviceUrl(usr, pwd))

\* ------------------------------------------------------------- operations
\* What one operation returns and does, given the device's answers:
\*   on, relay, data  the returned value (bool, *Relay, *status or *info)
\*   err              the returned error
\*   panicked         the operation dereferenced a nil pointer
\*   reqs             the requests it sent, in order
\*   out              what it wrote to its io.Writer, in order
\*   logged           the number of bodies it wrote to the diagnostic log
Returns == [err |-> NoErr, reqs |-> <<>>, logged |-> 0, on |-> FALSE,
            relay |-> Nil, data |-> Nil, panicked |-> FALSE, out |-> <<>>]

\* ---- legacy client
shellyPlug_TurnOn(s, resp) ==
    LET g == shellyPlug_get(s, "relay/0", TurnQuery("on"), ZeroRelay, "Relay", resp)
    IN IF g.err # NoErr
       THEN [Returns EXCEPT !.relay = Nil, !.err = g.err, !.reqs = g.reqs]
       ELSE IF ~g.val.IsOn
       THEN [Returns EXCEPT !.relay = Nil, !.err = Errorf("relay is not on"), !.reqs = g.reqs]
       ELSE [Returns EXCEPT !.relay = Ptr(g.val), !.err = NoErr, !.reqs = g.reqs]

shellyPlug_TurnOff(s, resp) ==
    LET g == shellyPlug_get(s, "relay/0", TurnQuery("off"), ZeroRelay, "Relay", resp)
    IN IF g.err # NoErr
       THEN [Returns EXCEPT !.relay = Nil, !.err = g.err, !.reqs = g.reqs]
       ELSE IF g.val.IsOn
       THEN [Returns EXCEPT !.relay = Ptr(g.val), !.err = Errorf("relay is on"), !.reqs = g.reqs]
       ELSE [Returns EXCEPT !.relay = Ptr(g.val), !.err = NoErr, !.reqs = g.reqs]

shellyPlug_Status(s, resp) ==
    LET g == shellyPlug_get(s, "status", NoQueries, ZeroStatusV1, "DeviceStatus", resp)
    IN IF g.err # NoErr
       THEN [Returns EXCEPT !.data = Nil, !.err = g.err, !.reqs = g.reqs]
       ELSE [Returns EXCEPT !.data = Ptr(g.val), !.err = NoErr, !.reqs = g.reqs]

shellyPlug_Info(s, resp) ==
    LET g == shellyPlug_get(s, "shelly", NoQueries, ZeroInfo, "DeviceInfo", resp)
    IN IF g.err # NoErr
       THEN [Returns EXCEPT !.data = Nil, !.err = g.err, !.reqs = g.reqs]
       ELSE [Returns EXCEPT !.data = Ptr(g.val), !.err = NoErr, !.reqs = g.reqs]

\* ---- first generation client
\* variant: TurnOn returns true whenever the command was sent
shellyPlugV1_TurnOn_SentMeansOn(s, resp) ==
    LET g == shellyPlugV1_get(s, "relay/0", TurnQuery("on"), ZeroRelay, "relayV1", resp)
    IN IF g.err # NoErr
       THEN [Returns EXCEPT !.on = TRUE, !.err = g.err, !.reqs = g.reqs]
       ELSE IF ~g.val.IsOn
       THEN [Returns EXCEPT !.on = TRUE, !.err = Errorf("relay is not on"), !.reqs = g.reqs]
       ELSE [Returns EXCEPT !.on = g.val.IsOn, !.err = NoErr, !.reqs = g.reqs]

shellyPlugV1_TurnOn(s, resp) ==
    LET g == shellyPlugV1_get(s, "relay/0", TurnQuery("on"), ZeroRelay, "relayV1", resp)
    IN IF g.err # NoErr
       THEN [Returns EXCEPT !.on = FALSE, !.err = g.err, !.reqs = g.reqs]
       ELSE IF ~g.val.IsOn
       THEN [Returns EXCEPT !.on = FALSE, !.err = Errorf("relay is not on"), !.reqs = g.reqs]
       ELSE [Returns EXCEPT !.on = g.val.IsOn, !.err = NoErr, !.reqs = g.reqs]

\* variant: TurnOff returns the echoed state without comparing it
shellyPlugV1_TurnOff_Unchecked(s, resp) ==
    LET g == shellyPlugV1_get(s, "relay/0", TurnQuery("off"), ZeroRelay, "relayV1", resp)
    IN IF g.err # NoErr
       THEN [Returns EXCEPT !.on = FALSE, !.err = g.err, !.reqs = g.reqs]
       ELSE [Returns EXCEPT !.on = g.val.IsOn, !.err = NoErr, !.reqs = g.reqs]

shellyPlugV1_TurnOff(s, resp) ==
    LET g == shellyPlugV1_get(s, "relay/0", TurnQuery("off"), ZeroRelay, "relayV1", resp)
    IN IF g.err # NoErr
       THEN [Returns EXCEPT !.on = FALSE, !.err = g.err, !.reqs = g.reqs]
       ELSE IF g.val.IsOn
       THEN [Returns EXCEPT !.on = g.val.IsOn, !.err = Errorf("relay is on"), !.reqs = g.reqs]
       ELSE [Returns EXCEPT !.on = g.val.IsOn, !.err = NoErr, !.reqs = g.reqs]

\* variant: Status tries once more when the fetch failed
shellyPlugV1_Status_Retry(s, resp) ==
    LET g == shellyPlugV1_get(s, "status", NoQueries, ZeroStatusV1, "deviceStatusV1", resp)
    IN IF g.err # NoErr
       THEN [Returns EXCEPT !.data = Nil, !.err = g.err, !.reqs = g.reqs \o g.reqs]
       ELSE [Returns EXCEPT !.data = Ptr(g.val), !.err = NoErr, !.reqs = g.reqs]

shellyPlugV1_Status(s, resp) ==
    LET g == shellyPlugV1_get(s, "status", NoQueries, ZeroStatusV1, "deviceStatusV1", resp)
    IN IF g.err # NoErr
       THEN [Returns EXCEPT !.data = Nil, !.err = g.err, !.reqs = g.reqs]
       ELSE [Returns EXCEPT !.data = Ptr(g.val), !.err = NoErr, !.reqs = g.reqs]

shellyPlugV1_Info(s, resp) ==
    LET g == shellyPlugV1_get(s, "shelly", NoQueries, ZeroInfo, "deviceInfoV1", resp)
    IN IF g.err # NoErr
       THEN [Returns EXCEPT !.data = Nil, !.err = g.err, !.reqs = g.reqs]
       ELSE [Returns EXCEPT !.data = Ptr(g.val), !.err = NoErr, !.reqs = g.reqs]

\* ---- second generation client
\* variant: TurnOn returns the echoed state without comparing it
shellyPlugV2_TurnOn_Unchecked(s, resp) ==
    LET g == shellyPlugV2_get(s, "relay/0", TurnQuery("on"), ZeroRelay, "SwitchStateV2", resp)
    IN IF g.err # NoErr
       THEN [Returns EXCEPT !.on = FALSE, !.err = g.err, !.reqs = g.reqs, !.logged = g.logged]
       ELSE [Returns EXCEPT !.on = g.val.IsOn, !.err = NoErr,
                            !.reqs = g.reqs, !.logged = g.logged]

shellyPlugV2_TurnOn(s, resp) ==
    LET g == shellyPlugV2_get(s, "relay/0", TurnQuery("on"), ZeroRelay, "SwitchStateV2", resp)
    IN IF g.err # NoErr
       THEN [Returns EXCEPT !.on = FALSE, !.err = g.err, !.reqs = g.reqs, !.logged = g.logged]
       ELSE IF ~g.val.IsOn
       THEN [Returns EXCEPT !.on = FALSE, !.err = Errorf("relay is not on"),
                            !.reqs = g.reqs, !.logged = g.logged]
       ELSE [Returns EXCEPT !.on = g.val.IsOn, !.err = NoErr,
                            !.reqs = g.reqs, !.logged = g.logged]

\* variant: TurnOff compares the echoed state the wrong way round
shellyPlugV2_TurnOff_Inverted(s, resp) ==
    LET g == shellyPlugV2_get(s, "relay/0", TurnQuery("off"), ZeroRelay, "SwitchStateV2", resp)
    IN IF g.err # NoErr
       THEN [Returns EXCEPT !.on = FALSE, !.err = g.err, !.reqs = g.reqs, !.logged = g.logged]
       ELSE IF ~g.val.IsOn
       THEN [Returns EXCEPT !.on = g.val.IsOn, !.err = Errorf("relay is on"),
                            !.reqs = g.reqs, !.logged = g.logged]
       ELSE [Returns EXCEPT !.on = g.val.IsOn, !.err = NoErr,
                            !.reqs = g.reqs, !.logged = g.logged]

shellyPlugV2_TurnOff(s, resp) ==
    LET g == shellyPlugV2_get(s, "relay/0", TurnQuery("off"), ZeroRelay, "SwitchStateV2", resp)
    IN IF g.err # NoErr
       THEN [Returns EXCEPT !.on = FALSE, !.err = g.err, !.reqs = g.reqs, !.logged = g.logged]
       ELSE IF g.val.IsOn
       THEN [Returns EXCEPT !.on = g.val.IsOn, !.err = Errorf("relay is on"),
                            !.reqs = g.reqs, !.logged = g.logged]
       ELSE [Returns EXCEPT !.on = g.val.IsOn, !.err = NoErr,
                            !.reqs = g.reqs, !.logged = g.logged]

\* variant: the second generation client requests the status on the first
\* generation's path
shellyPlugV2_Status_LegacyPath(s, resp) ==
    LET g == shellyPlugV2_get(s, "status", NoQueries, ZeroStatusV2,
                              "DeviceStatusV2", resp)
    IN IF g.err # NoErr
       THEN [Returns EXCEPT !.data = Nil, !.err = g.err, !.reqs = g.reqs, !.logged = g.logged]
       ELSE [Returns EXCEPT !.data = Ptr(g.val), !.err = NoErr,
                            !.reqs = g.reqs, !.logged = g.logged]

shellyPlugV2_Status(s, resp) ==
    LET g == shellyPlugV2_get(s, "rpc/Shelly.GetStatus", NoQueries, ZeroStatusV2,
                              "DeviceStatusV2", resp)
    IN IF g.err # NoErr
       THEN [Returns EXCEPT !.data = Nil, !.err = g.err, !.reqs = g.reqs, !.logged = g.logged]
       ELSE [Returns EXCEPT !.data = Ptr(g.val), !.err = NoErr,
                            !.reqs = g.reqs, !.logged = g.logged]

shellyPlugV2_Info(s, resp) ==
    LET g == shellyPlugV2_get(s, "shelly", NoQueries, ZeroInfo, "DeviceInfoV2", resp)
    IN IF g.err # NoErr
       THEN [Returns EXCEPT !.data = Nil, !.err = g.err, !.reqs = g.reqs, !.logged = g.logged]
       ELSE [Returns EXCEPT !.data = Ptr(g.val), !.err = NoErr,
                            !.reqs = g.reqs, !.logged = g.logged]

\* -------------------------------------------------------------- rendering
\* What a render operation writes: text lines (label and, for numbers, the
\* printed value in hundredths; strings and times print as 0), or one JSON
\* document (doc maps keys to rationals, or to the label map and the metrics).
NoDoc == <<>>
NoLabels == <<>>

Line(label, num) == [kind |-> "text", label |-> label, num |-> num, doc |-> NoDoc]
Blank == Line("", 0)
Json(doc) == [kind |-> "json", label |-> "", num |-> 0, doc |-> doc]
\* map[string]any{"labels": labels, "metrics": map[string]any{...}}
Choria(lbls, doc) == [kind |-> "choria", label |-> "", num |-> 0,
                      doc |-> [labels |-> lbls, metrics |-> doc]]

Rat(n) == <<n, 1>>
Bool(b) == IF b THEN 1 ELSE 0

\* float64(Total) * 0.000016666666666666667
ScaleV1 == 60000
\* variant: the first generation counter is scaled like the second's
KwhV1_Thousandth(total) == <<total, 1000>>

KwhV1(total) == <<total, ScaleV1>>

\* float64(Total) / 1000
ScaleV2 == 1000
KwhV2(total) == <<total, ScaleV2>>

\* "%.2f": the value rounded to hundredths
Fmt2(r) ==
    LET a == 100 * r[1]
        d == r[2]
    IN IF a >= 0 THEN (2 * a + d) \div (2 * d)
       ELSE 0 - ((2 * (0 - a) + d) \div (2 * d))

\* ---- first generation client
\* variant: the timer details are written whether or not a timer is active
shellyPlugV1_RenderInfo_report_TimerAlways(status) ==
    LET head == << Line("Shelly device information for", 0), Blank,
                   Line("Device Information", 0), Blank,
                   Line("Device Type", 0), Line("Firmware", 0),
                   Line("MAC Address", 0), Blank,
                   Line("Device Status", 0), Blank,
                   Line("Time", 0), Line("Uptime", 0),
                   Line("Memory Total", 0), Line("Memory Free", 0),
                   Line("Storage Total", 0), Line("Storage Free", 0),
                   Blank, Line("Network Information", 0), Blank,
                   Line("IP Address", 0), Line("WiFi SSID", 0),
                   Line("WiFi Strength", 0),
                   Line("Cloud Enabled", Bool(status.CloudEnabled)) >>
        cloud == IF status.CloudEnabled THEN << Line("Cloud Connected", 0) >> ELSE << >>
        upd == << Line("MQTT Connected", 0), Blank,
                  Line("Updates Information", 0), Blank,
                  Line("Has Update", 0), Line("Latest Available", 0) >>
        relay == IF Len(status.Relays) = 1
                 THEN << Blank, Line("Relay Information", 0), Blank,
                         Line("Power Status", Bool(status.Relays[1].IsOn)),
                         Line("Timer", Bool(status.Relays[1].HasTimer)) >>
                      \o << Line("Started", 0), Line("Duration", 0),
                            Line("Remaining", 0) >>
                 ELSE << >>
        meter == IF Len(status.Meters) = 1
                 THEN << Blank, Line("Meter Information", 0), Blank,
                         Line("Power", Fmt2(Rat(status.Meters[1].Power))),
                         Line("Total Consumption", Fmt2(KwhV1(status.Meters[1].Total))) >>
                 ELSE << >>
    IN head \o cloud \o upd \o relay \o meter

\* the report RenderInfo writes once both fetches succeeded
shellyPlugV1_RenderInfo_report(status) ==
    LET head == << Line("Shelly device information for", 0), Blank,
                   Line("Device Information", 0), Blank,
                   Line("Device Type", 0), Line("Firmware", 0),
                   Line("MAC Address", 0), Blank,
                   Line("Device Status", 0), Blank,
                   Line("Time", 0), Line("Uptime", 0),
                   Line("Memory Total", 0), Line("Memory Free", 0),
                   Line("Storage Total", 0), Line("Storage Free", 0),
                   Blank, Line("Network Information", 0), Blank,
                   Line("IP Address", 0), Line("WiFi SSID", 0),
                   Line("WiFi Strength", 0),
                   Line("Cloud Enabled", Bool(status.CloudEnabled)) >>
        cloud == IF status.CloudEnabled THEN << Line("Cloud Connected", 0) >> ELSE << >>
        upd == << Line("MQTT Connected", 0), Blank,
                  Line("Updates Information", 0), Blank,
                  Line("Has Update", 0), Line("Latest Available", 0) >>
        relay == IF Len(status.Relays) = 1
                 THEN << Blank, Line("Relay Information", 0), Blank,
                         Line("Power Status", Bool(status.Relays[1].IsOn)),
                         Line("Timer", Bool(status.Relays[1].HasTimer)) >>
                      \o (IF status.Relays[1].HasTimer
                          THEN << Line("Started", 0), Line("Duration", 0),
                                  Line("Remaining", 0) >>
                          ELSE << >>)
                 ELSE << >>
        meter == IF Len(status.Meters) = 1
                 THEN << Blank, Line("Meter Information", 0), Blank,
                         Line("Power", Fmt2(Rat(status.Meters[1].Power))),
                         Line("Total Consumption", Fmt2(KwhV1(status.Meters[1].Total))) >>
                 ELSE << >>
    IN head \o cloud \o upd \o relay \o meter

\* variant: RenderInfo fetches the status even when the info fetch failed
shellyPlugV1_RenderInfo_BothFetches(s, r1, r2) ==
    LET i == shellyPlugV1_Info(s, r1)
        t == shellyPlugV1_Status(s, r2)
    IN IF i.err # NoErr
       THEN [Returns EXCEPT !.err = i.err, !.reqs = i.reqs \o t.reqs]
       ELSE IF t.err # NoErr
       THEN [Returns EXCEPT !.err = t.err, !.reqs = i.reqs \o t.reqs]
       ELSE [Returns EXCEPT !.err = NoErr, !.reqs = i.reqs \o t.reqs,
                            !.out = shellyPlugV1_RenderInfo_report(Deref(t.data))]

shellyPlugV1_RenderInfo(s, r1, r2) ==
    LET i == shellyPlugV1_Info(s, r1)
        t == shellyPlugV1_Status(s, r2)
    IN IF i.err # NoErr
       THEN [Returns EXCEPT !.err = i.err, !.reqs = i.reqs]
       ELSE IF t.err # NoErr
       THEN [Returns EXCEPT !.err = t.err, !.reqs = i.reqs \o t.reqs]
       ELSE [Returns EXCEPT !.err = NoErr, !.reqs = i.reqs \o t.reqs,
                            !.out = shellyPlugV1_RenderInfo_report(Deref(t.data))]

\* variant: RenderEnergy checks the meters but not the relays
shellyPlugV1_RenderEnergy_check_MetersOnly(status) ==
    IF Len(status.Meters) # 1
    THEN Errorf("no meter information received")
    ELSE NoErr

\* the checks RenderEnergy makes on the status before it reads it
shellyPlugV1_RenderEnergy_check(status) ==
    IF Len(status.Meters) # 1
    THEN Errorf("no meter information received")
    ELSE IF Len(status.Relays) # Len(status.Meters)
    THEN Errorf("invalid relay information received")
    ELSE NoErr

\* variant: the metrics document takes precedence over the JSON document
shellyPlugV1_RenderEnergy_report_ChoriaFirst(status, jsonF, choriaF, lbls) ==
    LET m == status.Meters[1]
        r == status.Relays[1]
        isOn == IF r.IsOn THEN 1 ELSE 0
        reading == [power_watt |-> Rat(m.Power),
                    power_total_kwh |-> KwhV1(m.Total),
                    is_on |-> Rat(isOn)]
    IN IF choriaF
       THEN << Choria(lbls, [current_power_watt |-> reading.power_watt,
                             today_energy_kwh |-> reading.power_total_kwh,
                             relay_on |-> reading.is_on]) >>
       ELSE IF jsonF
       THEN << Json(reading) >>
       ELSE << Line("Meter Information", 0), Blank,
               Line("Powered On", Bool(isOn = 1)),
               Line("Power", Fmt2(Rat(m.Power))),
               Line("Total Consumption", Fmt2(KwhV1(m.Total))) >>

\* what RenderEnergy writes for a status with a meter and a relay
shellyPlugV1_RenderEnergy_report(status, jsonF, choriaF, lbls) ==
    LET m == status.Meters[1]
        r == status.Relays[1]
        isOn == IF r.IsOn THEN 1 ELSE 0
        reading == [power_watt |-> Rat(m.Power),
                    power_total_kwh |-> KwhV1(m.Total),
                    is_on |-> Rat(isOn)]
    IN IF jsonF
       THEN << Json(reading) >>
       ELSE IF choriaF
       THEN << Choria(lbls, [current_power_watt |-> reading.power_watt,
                             today_energy_kwh |-> reading.power_total_kwh,
                             relay_on |-> reading.is_on]) >>
       ELSE << Line("Meter Information", 0), Blank,
               Line("Powered On", Bool(isOn = 1)),
               Line("Power", Fmt2(Rat(m.Power))),
               Line("Total Consumption", Fmt2(KwhV1(m.Total))) >>

\* variant: RenderEnergy fetches the device information before the status
shellyPlugV1_RenderEnergy_WithInfo(s, jsonF, choriaF, lbls, r1) ==
    LET i == shellyPlugV1_Info(s, r1)
        t == shellyPlugV1_Status(s, r1)
        status == Deref(t.data)
        chk == shellyPlugV1_RenderEnergy_check(status)
    IN IF t.err # NoErr
       THEN [Returns EXCEPT !.err = t.err, !.reqs = i.reqs \o t.reqs]
       ELSE IF chk # NoErr
       THEN [Returns EXCEPT !.err = chk, !.reqs = i.reqs \o t.reqs]
       ELSE IF Len(status.Meters) < 1 \/ Len(status.Relays) < 1
       THEN [Returns EXCEPT !.panicked = TRUE, !.reqs = i.reqs \o t.reqs]
       ELSE [Returns EXCEPT !.err = NoErr, !.reqs = i.reqs \o t.reqs,
                            !.out = shellyPlugV1_RenderEnergy_report(status, jsonF, choriaF, lbls)]

shellyPlugV1_RenderEnergy(s, jsonF, choriaF, lbls, r1) ==
    LET t == shellyPlugV1_Status(s, r1)
        status == Deref(t.data)
        chk == shellyPlugV1_RenderEnergy_check(status)
    IN IF t.err # NoErr
       THEN [Returns EXCEPT !.err = t.err, !.reqs = t.reqs]
       ELSE IF chk # NoErr
       THEN [Returns EXCEPT !.err = chk, !.reqs = t.reqs]
       ELSE IF Len(status.Meters) < 1 \/ Len(status.Relays) < 1
       THEN [Returns EXCEPT !.panicked = TRUE, !.reqs = t.reqs]
       ELSE [Returns EXCEPT !.err = NoErr, !.reqs = t.reqs,
                            !.out = shellyPlugV1_RenderEnergy_report(status, jsonF, choriaF, lbls)]

\* ---- second generation client
\* The report RenderInfo writes once both fetches succeeded: [out, panicked].
\* A nil System, WiFi, AEnergy or Temperature is dereferenced while the
\* arguments of the line that prints it are evaluated: the operation panics
\* after the lines written before it.
shellyPlugV2_RenderInfo_report(status) ==
    LET sys == Deref(status.System)
        sw == Deref(status.Switch1)
        ident == << Line("Shelly device information for", 0), Blank,
                    Line("Device Information", 0), Blank,
                    Line("Device Type", 0), Line("Firmware", 0) >>
        stat == << Line("MAC Address", 0), Blank,
                   Line("Device Status", 0), Blank,
                   Line("Time", 0), Line("Uptime", 0),
                   Line("Memory Total", 0), Line("Memory Free", 0),
                   Line("Storage Total", 0), Line("Storage Free", 0),
                   Blank, Line("Network Information", 0), Blank >>
        hasUpdates == sys.Stable # Nil
        net == << Line("IP Address", 0), Line("WiFi SSID", 0),
                  Line("WiFi Strength", Deref(status.WiFi).RSSI),
                  Blank, Line("Updates Information", 0), Blank,
                  Line("Has Update", Bool(hasUpdates)) >>
               \o (IF hasUpdates THEN << Line("Latest Available", 0) >> ELSE << >>)
        relay == << Blank, Line("Relay Information", 0), Blank,
                    Line("Power Status", Bool(sw.Output)),
                    Blank, Line("Meter Information", 0), Blank,
                    Line("Power", Fmt2(Rat(sw.APower))),
                    Line("Voltage", Fmt2(Rat(sw.Voltage))),
                    Line("Current", Fmt2(Rat(sw.Current))),
                    Line("Frequency", Fmt2(Rat(sw.Freq))) >>
        total == << Line("Total Consumption", Fmt2(KwhV2(Deref(sw.AEnergy).Total))) >>
        temp == << Line("Internal Temp", Fmt2(Rat(Deref(sw.Temperature).TC))) >>
        Done(out) == [panicked |-> FALSE, out |-> out]
        Panic(out) == [panicked |-> TRUE, out |-> out]
    IN IF status.System = Nil THEN Panic(ident)
       ELSE IF status.WiFi = Nil THEN Panic(ident \o stat)
       ELSE IF status.Switch1 = Nil THEN Done(ident \o stat \o net)
       ELSE IF sw.AEnergy = Nil THEN Panic(ident \o stat \o net \o relay)
       ELSE IF sw.Temperature = Nil THEN Panic(ident \o stat \o net \o relay \o total)
       ELSE Done(ident \o stat \o net \o relay \o total \o temp)

shellyPlugV2_RenderInfo(s, r1, r2) ==
    LET i == shellyPlugV2_Info(s, r1)
        t == shellyPlugV2_Status(s, r2)
        w == shellyPlugV2_RenderInfo_report(Deref(t.data))
    IN IF i.err # NoErr
       THEN [Returns EXCEPT !.err = i.err, !.reqs = i.reqs, !.logged = i.logged]
       ELSE IF t.err # NoErr
       THEN [Returns EXCEPT !.err = t.err, !.reqs = i.reqs \o t.reqs,
                            !.logged = i.logged + t.logged]
       ELSE [Returns EXCEPT !.err = NoErr, !.reqs = i.reqs \o t.reqs,
                            !.logged = i.logged + t.logged,
                            !.out = w.out, !.panicked = w.panicked]

\* variant: RenderEnergy checks the switch but not its energy counters
shellyPlugV2_RenderEnergy_check_SwitchOnly(status) ==
    IF status.Switch1 = Nil
    THEN Errorf("no switch information received")
    ELSE NoErr

\* the checks RenderEnergy makes on the status before it reads it
shellyPlugV2_RenderEnergy_check(status) ==
    IF status.Switch1 = Nil
    THEN Errorf("no switch information received")
    ELSE IF Deref(status.Switch1).AEnergy = Nil
    THEN Errorf("no meter information received")
    ELSE NoErr

\* variant: the metrics document carries the voltage as current_power_ampere
\* and the current as current_power_volt
shellyPlugV2_RenderEnergy_report_Swapped(status, jsonF, choriaF, lbls) ==
    LET sw == Deref(status.Switch1)
        isOn == IF sw.Output THEN 1 ELSE 0
        reading == [power_watt |-> Rat(sw.APower),
                    power_total_kwh |-> KwhV2(Deref(sw.AEnergy).Total),
                    is_on |-> Rat(isOn),
                    power_volt |-> Rat(sw.Voltage),
                    power_ampere |-> Rat(sw.Current),
                    power_frequency |-> Rat(sw.Freq),
                    internal_celsius |-> Rat(Deref(sw.Temperature).TC)]
    IN IF jsonF
       THEN << Json(reading) >>
       ELSE IF choriaF
       THEN << Choria(lbls, [current_power_watt |-> reading.power_watt,
                             relay_on |-> reading.is_on,
                             internal_celsius |-> reading.internal_celsius,
                             current_power_volt |-> reading.power_ampere,
                             current_power_ampere |-> reading.power_volt,
                             current_power_frequency |-> reading.power_frequency,
                             total_energy_kwh |-> reading.power_total_kwh]) >>
       ELSE << Line("Meter Information", 0), Blank,
               Line("Powered On", Bool(isOn = 1)),
               Line("Power", Fmt2(Rat(sw.APower))),
               Line("Voltage", Fmt2(Rat(sw.Voltage))),
               Line("Current", Fmt2(Rat(sw.Current))),
               Line("Frequency", Fmt2(Rat(sw.Freq))),
               Line("Total Consumption", Fmt2(KwhV2(Deref(sw.AEnergy).Total))),
               Line("Internal Temp", Fmt2(Rat(Deref(sw.Temperature).TC))) >>

\* what RenderEnergy writes for a status whose switch, energy and temperature
\* are present
shellyPlugV2_RenderEnergy_report(status, jsonF, choriaF, lbls) ==
    LET sw == Deref(status.Switch1)
        isOn == IF sw.Output THEN 1 ELSE 0
        reading == [power_watt |-> Rat(sw.APower),
                    power_total_kwh |-> KwhV2(Deref(sw.AEnergy).Total),
                    is_on |-> Rat(isOn),
                    power_volt |-> Rat(sw.Voltage),
                    power_ampere |-> Rat(sw.Current),
                    power_frequency |-> Rat(sw.Freq),
                    internal_celsius |-> Rat(Deref(sw.Temperature).TC)]
    IN IF jsonF
       THEN << Json(reading) >>
       ELSE IF choriaF
       THEN << Choria(lbls, [current_power_watt |-> reading.power_watt,
                             relay_on |-> reading.is_on,
                             internal_celsius |-> reading.internal_celsius,
                             current_power_volt |-> reading.power_volt,
                             current_power_ampere |-> reading.power_ampere,
                             current_power_frequency |-> reading.power_frequency,
                             total_energy_kwh |-> reading.power_total_kwh]) >>
               ELSE << Line("Meter Information", 0), Blank,
                       Line("Powered On", Bool(isOn = 1)),
                       Line("Power", Fmt2(Rat(sw.APower))),
                       Line("Voltage", Fmt2(Rat(sw.Voltage))),
                       Line("Current", Fmt2(Rat(sw.Current))),
                       Line("Frequency", Fmt2(Rat(sw.Freq))),
                       Line("Total Consumption", Fmt2(KwhV2(Deref(sw.AEnergy).Total))),
                       Line("Internal Temp", Fmt2(Rat(Deref(sw.Temperature).TC))) >>

\* building the reading dereferences Switch1, AEnergy and Temperature: the
\* operation panics, before it writes, when one of them is nil
shellyPlugV2_RenderEnergy(s, jsonF, choriaF, lbls, r1) ==
    LET t == shellyPlugV2_Status(s, r1)
        status == Deref(t.data)
        chk == shellyPlugV2_RenderEnergy_check(status)
        sw == Deref(status.Switch1)
    IN IF t.err # NoErr
       THEN [Returns EXCEPT !.err = t.err, !.reqs = t.reqs, !.logged = t.logged]
       ELSE IF chk # NoErr
       THEN [Returns EXCEPT !.err = chk, !.reqs = t.reqs, !.logged = t.logged]
       ELSE IF status.Switch1 = Nil \/ sw.AEnergy = Nil \/ sw.Temperature = Nil
       THEN [Returns EXCEPT !.panicked = TRUE, !.reqs = t.reqs, !.logged = t.logged]
       ELSE [Returns EXCEPT !.err = NoErr, !.reqs = t.reqs, !.logged = t.logged,
                            !.out = shellyPlugV2_RenderEnergy_report(status, jsonF, choriaF, lbls)]

\* ------------------------------------------------------------ the commands
\* A call through the Plug interface runs the method of the client's type.
Plug_TurnOn(p, resp) ==
    IF p.kind = "shellyPlugV2" THEN shellyPlugV2_TurnOn(p, resp)
    ELSE shellyPlugV1_TurnOn(p, resp)

Plug_TurnOff(p, resp) ==
    IF p.kind = "shellyPlugV2" THEN shellyPlugV2_TurnOff(p, resp)
    ELSE shellyPlugV1_TurnOff(p, resp)

\* fmt.Println(msg) on the standard output
Println(msg) == << Line(msg, 0) >>

\* variant: the on command prints the confirmation whatever TurnOn returned
onAction_PrintAlways(v2, usr, pwd, resp) ==
    LET c == newPlug(v2, usr, pwd)
        t == Plug_TurnOn(Deref(c.plug), resp)
    IN IF c.err # NoErr
       THEN [Returns EXCEPT !.err = c.err]
       ELSE [Returns EXCEPT !.err = t.err, !.reqs = t.reqs, !.logged = t.logged,
                            !.out = Println("Device turned on")]

\* the on and off commands: what they return to main and print
onAction(v2, usr, pwd, resp) ==
    LET c == newPlug(v2, usr, pwd)
        t == Plug_TurnOn(Deref(c.plug), resp)
    IN IF c.err # NoErr
       THEN [Returns EXCEPT !.err = c.err]
       ELSE IF t.err # NoErr
       THEN [Returns EXCEPT !.err = t.err, !.reqs = t.reqs, !.logged = t.logged]
       ELSE [Returns EXCEPT !.err = NoErr, !.reqs = t.reqs, !.logged = t.logged,
                            !.out = Println("Device turned on")]

offAction(v2, usr, pwd, resp) ==
    LET c == newPlug(v2, usr, pwd)
        t == Plug_TurnOff(Deref(c.plug), resp)
    IN IF c.err # NoErr
       THEN [Returns EXCEPT !.err = c.err]
       ELSE IF t.err # NoErr
       THEN [Returns EXCEPT !.err = t.err, !.reqs = t.reqs, !.logged = t.logged]
       ELSE [Returns EXCEPT !.err = NoErr, !.reqs = t.reqs, !.logged = t.logged,
                            !.out = Println("Device turned off")]

\* the same commands of the legacy program, on the legacy client
legacy_onAction(usr, pwd, resp) ==
    LET c == NewShellyPlug(deviceUrl(usr, pwd))
        t == shellyPlug_TurnOn(Deref(c.plug), resp)
    IN IF c.err # NoErr
       THEN [Returns EXCEPT !.err = c.err]
       ELSE IF t.err # NoErr
       THEN [Returns EXCEPT !.err = t.err, !.reqs = t.reqs]
       ELSE [Returns EXCEPT !.err = NoErr, !.reqs = t.reqs,
                            !.out = Println("Device turned on")]

legacy_offAction(usr, pwd, resp) ==
    LET c == NewShellyPlug(deviceUrl(usr, pwd))
        t == shellyPlug_TurnOff(Deref(c.plug), resp)
    IN IF c.err # NoErr
       THEN [Returns EXCEPT !.err = c.err]
       ELSE IF t.err # NoErr
       THEN [Returns EXCEPT !.err = t.err, !.reqs = t.reqs]
       ELSE [Returns EXCEPT !.err = NoErr, !.reqs = t.reqs,
                            !.out = Println("Device turned off")]

\* ------------------------------------------------------------ the program
VARIABLES
    user, pass,                \* --username, --password
    v2Plus,                    \* --v2
    jsonFormat, choriaFormat,  \* --json, --choria
    labels,                    \* --label
    pc,                        \* "parsed", "ready", "failed" or "done"
    ctor,                      \* the constructor called
    addr,                      \* the address it was given as argument
    plug,                      \* the constructed client: Nil or a pointer
    op,                        \* the last function called
    ret,                       \* what it returned and did (see Returns)
    served                     \* the responses the device gave to its requests

vars == <<user, pass, v2Plus, jsonFormat, choriaFormat, labels,
          pc, ctor, addr, plug, op, ret, served>>

flags == <<user, pass, v2Plus, jsonFormat, choriaFormat, labels>>

Users == {"", "admin"}
Passwords == {"", "secret"}
LabelSets == { NoLabels, [location |-> "office"] }

NoAddress == [Scheme |-> "", Host |-> [name |-> "", port |-> ""], User |-> Nil]

\* The command lines tried: every combination of credentials and --v2 with
\* the default output, and every output mode and label set without
\* credentials.
Init ==
    /\ user \in Users
    /\ pass \in Passwords
    /\ v2Plus \in BOOLEAN
    /\ jsonFormat \in BOOLEAN
    /\ choriaFormat \in BOOLEAN
    /\ labels \in LabelSets
    /\ \/ ~jsonFormat /\ ~choriaFormat /\ labels = NoLabels
       \/ user = "" /\ pass = "" /\ ~v2Plus
    /\ pc = "parsed"
    /\ ctor = ""
    /\ addr = NoAddress
    /\ plug = Nil
    /\ op = "main"
    /\ ret = Returns
    /\ served = <<>>

\* the constructor name was called with address a and returned c
Constructed(name, a, c) ==
    /\ pc = "parsed"
    /\ ctor' = name
    /\ addr' = a
    /\ plug' = c.plug
    /\ op' = name
    /\ ret' = [Returns EXCEPT !.err = c.err, !.reqs = c.reqs]
    /\ served' = <<>>
    /\ pc' = IF c.err = NoErr /\ c.plug # Nil THEN "ready" ELSE "failed"
    /\ UNCHANGED flags

ConstructLegacy == \E a \in Addresses : Constructed("NewShellyPlug", a, NewShellyPlug(a))
ConstructV1 == \E a \in Addresses : Constructed("newShellyV1Plug", a, newShellyV1Plug(a))
ConstructV2 == \E a \in Addresses : Constructed("newShellyV2Plug", a, newShellyV2Plug(a))
ConstructNewPlug ==
    Constructed("newPlug", NoAddress, newPlug(v2Plus, user, pass))

\* the first n elements of a sequence (all of it when it is shorter)
Take(q, n) == [i \in 1..(IF n < Len(q) THEN n ELSE Len(q)) |-> q[i]]

\* an operation of the client returned r; rs are the device's answers, of
\* which it consumed one for each request it sent
Called(name, r, rs) ==
    /\ op' = name
    /\ ret' = r
    /\ served' = Take(rs, Len(r.reqs))
    /\ pc' = "done"
    /\ UNCHANGED <<flags, ctor, addr, plug>>

\* a client of this kind was constructed and not yet used
Ready(kind) == pc = "ready" /\ plug # Nil /\ Deref(plug).kind = kind

Self == Deref(plug)

\* ---- legacy client
LegacyTurnOn ==
    /\ Ready("shellyPlug")
    /\ \E r \in Responses(RelayBodies) :
           Called("TurnOn", shellyPlug_TurnOn(Self, r), <<r>>)
LegacyTurnOff ==
    /\ Ready("shellyPlug")
    /\ \E r \in Responses(RelayBodies) :
           Called("TurnOff", shellyPlug_TurnOff(Self, r), <<r>>)
LegacyStatus ==
    /\ Ready("shellyPlug")
    /\ \E r \in Responses(StatusV1Bodies) :
           Called("Status", shellyPlug_Status(Self, r), <<r>>)
LegacyInfo ==
    /\ Ready("shellyPlug")
    /\ \E r \in Responses(InfoBodies) :
           Called("Info", shellyPlug_Info(Self, r), <<r>>)

\* ---- first generation client
V1TurnOn ==
    /\ Ready("shellyPlugV1")
    /\ \E r \in Responses(RelayBodies) :
           Called("TurnOn", shellyPlugV1_TurnOn(Self, r), <<r>>)
V1TurnOff ==
    /\ Ready("shellyPlugV1")
    /\ \E r \in Responses(RelayBodies) :
           Called("TurnOff", shellyPlugV1_TurnOff(Self, r), <<r>>)
V1Status ==
    /\ Ready("shellyPlugV1")
    /\ \E r \in Responses(StatusV1Bodies) :
           Called("Status", shellyPlugV1_Status(Self, r), <<r>>)
V1Info ==
    /\ Ready("shellyPlugV1")
    /\ \E r \in Responses(InfoBodies) :
           Called("Info", shellyPlugV1_Info(Self, r), <<r>>)
V1RenderInfo ==
    /\ Ready("shellyPlugV1")
    /\ \E r1 \in Responses(InfoBodies), r2 \in Responses(StatusV1Bodies) :
           Called("RenderInfo", shellyPlugV1_RenderInfo(Self, r1, r2), <<r1, r2>>)
V1RenderEnergy ==
    /\ Ready("shellyPlugV1")
    /\ \E r \in Responses(StatusV1Bodies) :
           Called("RenderEnergy",
                     shellyPlugV1_RenderEnergy(Self, jsonFormat, choriaFormat, labels, r), <<r>>)

\* ---- second generation client
V2TurnOn ==
    /\ Ready("shellyPlugV2")
    /\ \E r \in Responses(RelayBodies) :
           Called("TurnOn", shellyPlugV2_TurnOn(Self, r), <<r>>)
V2TurnOff ==
    /\ Ready("shellyPlugV2")
    /\ \E r \in Responses(RelayBodies) :
           Called("TurnOff", shellyPlugV2_TurnOff(Self, r), <<r>>)
V2Status ==
    /\ Ready("shellyPlugV2")
    /\ \E r \in Responses(StatusV2Bodies) :
           Called("Status", shellyPlugV2_Status(Self, r), <<r>>)
V2Info ==
    /\ Ready("shellyPlugV2")
    /\ \E r \in Responses(InfoBodies) :
           Called("Info", shellyPlugV2_Info(Self, r), <<r>>)
V2RenderInfo ==
    /\ Ready("shellyPlugV2")
    /\ \E r1 \in Responses(InfoBodies), r2 \in Responses(StatusV2Bodies) :
           Called("RenderInfo", shellyPlugV2_RenderInfo(Self, r1, r2), <<r1, r2>>)
V2RenderEnergy ==
    /\ Ready("shellyPlugV2")
    /\ \E r \in Responses(StatusV2Bodies) :
           Called("RenderEnergy",
                     shellyPlugV2_RenderEnergy(Self, jsonFormat, choriaFormat, labels, r), <<r>>)

\* ---- the on and off commands
\* command name ran: it constructed its client with ctorName, which returned
\* c, and returned r to main; rs are the device's answers
Commanded(name, ctorName, a, c, r, rs) ==
    /\ pc = "parsed"
    /\ ctor' = ctorName
    /\ addr' = a
    /\ plug' = c.plug
    /\ op' = name
    /\ ret' = r
    /\ served' = Take(rs, Len(r.reqs))
    /\ pc' = IF c.err = NoErr /\ c.plug # Nil THEN "done" ELSE "failed"
    /\ UNCHANGED flags

CmdOn ==
    /\ pc = "parsed"
    /\ \E r \in Responses(RelayBodies) :
           Commanded("onAction", "newPlug", NoAddress, newPlug(v2Plus, user, pass),
                     onAction(v2Plus, user, pass, r), <<r>>)
CmdOff ==
    /\ pc = "parsed"
    /\ \E r \in Responses(RelayBodies) :
           Commanded("offAction", "newPlug", NoAddress, newPlug(v2Plus, user, pass),
                     offAction(v2Plus, user, pass, r), <<r>>)
LegacyCmdOn ==
    /\ pc = "parsed"
    /\ \E r \in Responses(RelayBodies) :
           Commanded("onAction", "NewShellyPlug", deviceUrl(user, pass),
                     NewShellyPlug(deviceUrl(user, pass)),
                     legacy_onAction(user, pass, r), <<r>>)
LegacyCmdOff ==
    /\ pc = "parsed"
    /\ \E r \in Responses(RelayBodies) :
           Commanded("offAction", "NewShellyPlug", deviceUrl(user, pass),
                     NewShellyPlug(deviceUrl(user, pass)),
                     legacy_offAction(user, pass, r), <<r>>)

Next ==
    \/ ConstructLegacy \/ ConstructV1 \/ ConstructV2 \/ ConstructNewPlug
    \/ LegacyTurnOn \/ LegacyTurnOff \/ LegacyStatus \/ LegacyInfo
    \/ V1TurnOn \/ V1TurnOff \/ V1Status \/ V1Info \/ V1RenderInfo \/ V1RenderEnergy
    \/ V2TurnOn \/ V2TurnOff \/ V2Status \/ V2Info \/ V2RenderInfo \/ V2RenderEnergy
    \/ CmdOn \/ CmdOff \/ LegacyCmdOn \/ LegacyCmdOff

Spec == Init /\ [][Next]_vars

\* ------------------------------------------------------------- properties
\* vocabulary of the properties: the state after operation name returned,
\* the client it was called on, and the device's answer to its i-th request
After(name) == pc = "done" /\ op = name
Kind == Deref(plug).kind
Is(kind) == plug # Nil /\ Deref(plug).kind = kind
Answer(i) == served[i]

\* the answer r arrived with a status that is not an error status
Arrived(r) == r.connErr = Nil /\ r.status < 400

\* the request succeeded and its body decodes as a relay state
EchoDecoded == Len(served) = 1 /\ Arrived(Answer(1)) /\ Answer(1).body.syntax
               /\ Answer(1).body.ison # "badtype"

\* the value TurnOn and TurnOff return reports success
ReportsSuccess == ret.err = NoErr /\ ~ret.panicked

\* C1 as stated: after TurnOn, on either generation, an echo that decoded and
\* reports the relay off (ison false on the legacy and first generation
\* clients, output false on the second generation client) gives a non-nil
\* error, and a nil error is returned only when the echo reports on (ison
\* true, respectively output true).
C1_AsStated ==
    (After("TurnOn") /\ EchoDecoded) =>
        LET echo == IF Kind = "shellyPlugV2" THEN Answer(1).body.output
                                             ELSE Answer(1).body.ison
        IN /\ echo = "false" => ret.err # NoErr
           /\ ret.err = NoErr => echo = "true"

\* C1 amended: after TurnOn, on every client, an echo that decoded and whose
\* ison is false gives the error "relay is not on" and the value false (no
\* relay); a nil error is returned only when the echo's ison is true.  The
\* second generation client reads ison too; output is not read.
C1_TurnOnPostcondition ==
    (After("TurnOn") /\ EchoDecoded) =>
        /\ Answer(1).body.ison = "false" =>
               ret.err = Errorf("relay is not on") /\ ~ret.on /\ ret.relay = Nil
        /\ ret.err = NoErr => Answer(1).body.ison = "true"

C1_Witness ==
    /\ After("TurnOn") /\ Is("shellyPlugV2") /\ EchoDecoded
    /\ Answer(1).body.ison = "false" /\ Answer(1).body.output = "true"
    /\ ret.err = Errorf("relay is not on")

\* C2: after TurnOff on the first generation client (and the legacy client),
\* an echo that decoded with ison true gives the state mismatch error "relay
\* is on"; a nil error is returned only when the echoed relay state is off
\* (ison false, or absent and so decoded as false).
C2_TurnOffPostconditionV1 ==
    (After("TurnOff") /\ Kind \in {"shellyPlugV1", "shellyPlug"} /\ EchoDecoded) =>
        /\ Answer(1).body.ison = "true" => ret.err = Errorf("relay is on")
        /\ ret.err = NoErr => Answer(1).body.ison \in {"false", "absent"}
        /\ ret.err \in {NoErr, Errorf("relay is on")}

C2_Witness ==
    /\ After("TurnOff") /\ Is("shellyPlugV1") /\ EchoDecoded
    /\ Answer(1).body.ison = "true"
    /\ ret.err = Errorf("relay is on")

\* C3 as stated: after TurnOff on the second generation client, an echo that
\* decoded and whose output is true gives a non-nil error.
C3_AsStated ==
    (After("TurnOff") /\ Kind = "shellyPlugV2" /\ EchoDecoded) =>
        (Answer(1).body.output = "true" => ~ReportsSuccess)

\* C3 amended: after TurnOff on the second generation client, an echo that
\* decoded and whose ison is true gives the error "relay is on": the call
\* does not report success.  (The switch state record is read from ison.)
C3_TurnOffPostconditionV2 ==
    (After("TurnOff") /\ Kind = "shellyPlugV2" /\ EchoDecoded) =>
        (Answer(1).body.ison = "true" =>
            ret.err = Errorf("relay is on") /\ ~ReportsSuccess)

C3_Witness ==
    /\ After("TurnOff") /\ Is("shellyPlugV2") /\ EchoDecoded
    /\ Answer(1).body.ison = "true" /\ Answer(1).body.output = "false"
    /\ ret.err = Errorf("relay is on")

\* the status request succeeded and its body decodes
StatusDecoded == Len(served) = 1 /\ Arrived(Answer(1)) /\ Answer(1).body.syntax

\* C4: RenderEnergy on the second generation client, given a status without
\* switch, or with a switch without energy counters, returns a precondition
\* error and has written nothing, whatever the output mode.
C4_RenderEnergyPreconditionV2 ==
    (After("RenderEnergy") /\ Kind = "shellyPlugV2" /\ StatusDecoded) =>
        LET b == Answer(1).body
        IN /\ b.sw = Nil =>
                 /\ ret.err = Errorf("no switch information received")
                 /\ ret.out = << >> /\ ~ret.panicked
           /\ (b.sw # Nil /\ Deref(b.sw).AEnergy = Nil) =>
                 /\ ret.err = Errorf("no meter information received")
                 /\ ret.out = << >> /\ ~ret.panicked

C4_Witness ==
    /\ After("RenderEnergy") /\ Is("shellyPlugV2") /\ StatusDecoded
    /\ Answer(1).body.sw # Nil /\ Deref(Answer(1).body.sw).AEnergy = Nil
    /\ choriaFormat /\ ~jsonFormat
    /\ ret.err = Errorf("no meter information received") /\ ret.out = << >>

\* C5: each of the three constructors, given an address with an empty host,
\* returns an error and no client; given any other address it returns a
\* client and no error; in both cases it sends no request.
C5_ConstructionChecksHost ==
    (op \in {"NewShellyPlug", "newShellyV1Plug", "newShellyV2Plug"}) =>
        /\ ret.reqs = << >> /\ served = << >>
        /\ (addr.Host.name = "" /\ addr.Host.port = "") =>
               plug = Nil /\ ret.err = Errorf("invalid address") /\ pc = "failed"
        /\ ~(addr.Host.name = "" /\ addr.Host.port = "") =>
               /\ plug # Nil /\ ret.err = NoErr /\ pc = "ready"
               /\ Deref(plug).address = addr
               /\ Kind = CASE op = "NewShellyPlug" -> "shellyPlug"
                           [] op = "newShellyV1Plug" -> "shellyPlugV1"
                           [] op = "newShellyV2Plug" -> "shellyPlugV2"

C5_Witness ==
    /\ op = "newShellyV2Plug" /\ addr.Host.name = "" /\ addr.Host.port = ""
    /\ plug = Nil /\ ret.err # NoErr /\ ret.reqs = << >>

\* C6 as stated: newPlug sends no request and returns a usable client and no
\* error, the second generation client when --v2 is set and the first
\* generation client otherwise.
C6_AsStated ==
    (op = "newPlug") =>
        /\ ret.reqs = << >> /\ served = << >>
        /\ plug # Nil /\ ret.err = NoErr
        /\ Kind = IF v2Plus THEN "shellyPlugV2" ELSE "shellyPlugV1"

\* what the code does instead: with --v2, newPlug returns an error
C6_Observed ==
    (op = "newPlug" /\ v2Plus) =>
        plug = Nil /\ ret.err = Errorf("shelly V2+ devices are not supported yet")

\* the body of answer r does not decode into the target of operation name
Undecodable(name, r) ==
    \/ ~r.body.syntax
    \/ name \in {"TurnOn", "TurnOff"} /\ r.body.ison = "badtype"

\* the error a fetch returns for the failed answer r to the request of url u
FetchError(name, r, u) ==
    IF r.connErr # Nil THEN CauseError(Deref(r.connErr))
    ELSE IF r.status >= 400 THEN HttpError(u, r.body)
    ELSE BodyError(IF ~r.body.syntax THEN "syntax" ELSE "type")

\* the fetch answered by r failed
Failed(name, r) == r.connErr # Nil \/ r.status >= 400 \/ Undecodable(name, r)

\* the url of a request for path with queries, sent by the client
UrlOf(path, queries) ==
    [host |-> Deref(plug).address.Host.name, path |-> path, query |-> queries]

\* C7: the fetch of Status and Info (every client) has one of four outcomes,
\* decided in this order: no connection gives the transport's cause; else an
\* error status gives an error with the url and the body, valid or not; else
\* an undecodable body gives a decode error; else the error is nil and the
\* target holds what the body carries.  A value is returned only in the
\* last case.
C7_FetchClassification ==
    (pc = "done" /\ op \in {"Status", "Info"}) =>
        /\ Len(served) = 1 /\ Len(ret.reqs) = 1
        /\ LET r == Answer(1)
               u == UrlOf(IF op = "Info" THEN "shelly"
                          ELSE IF Kind = "shellyPlugV2" THEN "rpc/Shelly.GetStatus"
                          ELSE "status", NoQueries)
           IN IF r.connErr # Nil
              THEN ret.err = CauseError(Deref(r.connErr)) /\ ret.data = Nil
              ELSE IF r.status >= 400
              THEN ret.err = HttpError(u, r.body) /\ ret.data = Nil
              ELSE IF ~r.body.syntax
              THEN ret.err = BodyError("syntax") /\ ret.data = Nil
              ELSE /\ ret.err = NoErr /\ ret.data # Nil
                   /\ (op = "Status" /\ Kind = "shellyPlugV2") =>
                          /\ Deref(ret.data).System = r.body.sys
                          /\ Deref(ret.data).Switch1 = r.body.sw
                          /\ Deref(ret.data).WiFi = r.body.wifi
                   /\ (op = "Status" /\ Kind # "shellyPlugV2") =>
                          /\ Deref(ret.data).Relays = r.body.relays
                          /\ Deref(ret.data).Meters = r.body.meters

C7_Witness ==
    /\ After("Status") /\ Is("shellyPlugV1")
    /\ Len(served) = 1 /\ Answer(1).connErr = Nil /\ Answer(1).status = 404
    /\ Answer(1).body.syntax
    /\ ret.err = HttpError(UrlOf("status", NoQueries), Answer(1).body)
    /\ ret.data = Nil

\* C8: a request carries basic authentication exactly when the client's
\* address carries credentials (and then carries those); the address newPlug
\* builds carries credentials exactly when --username and --password are
\* both non-empty; so with one of them missing no request has credentials.
C8_BasicAuthIffCredentials ==
    /\ pc = "done" =>
          \A i \in 1..Len(ret.reqs) :
              /\ (ret.reqs[i].auth # Nil) <=> (Deref(plug).address.User # Nil)
              /\ ret.reqs[i].auth = Deref(plug).address.User
    /\ (ctor = "newPlug" /\ plug # Nil) =>
          /\ (Deref(plug).address.User # Nil) <=> (user # "" /\ pass # "")
          /\ Deref(plug).address.User # Nil =>
                Deref(Deref(plug).address.User) = [username |-> user, password |-> pass]
    /\ (ctor = "newPlug" /\ pc = "done" /\ (user = "" \/ pass = "")) =>
          \A i \in 1..Len(ret.reqs) : ret.reqs[i].auth = Nil

C8_Witness ==
    /\ ctor = "newPlug" /\ pc = "done" /\ user = "admin" /\ pass = ""
    /\ Len(ret.reqs) = 1 /\ ret.reqs[1].auth = Nil

\* the number of fetches operation name makes at most
Fetches(name) == IF name = "RenderInfo" THEN 2 ELSE 1

\* C9: no operation retries.  An operation sends one request for each fetch
\* it makes (one, or two for RenderInfo), sends nothing after a fetch failed,
\* and returns the error of the failed fetch as it is.
C9_NoRetry ==
    pc = "done" =>
        /\ Len(ret.reqs) = Len(served)
        /\ Len(ret.reqs) >= 1 /\ Len(ret.reqs) <= Fetches(op)
        /\ \A i \in 1..Len(served) :
              Failed(op, served[i]) =>
                  /\ i = Len(served) /\ i = Len(ret.reqs)
                  /\ ret.err = FetchError(op, served[i], ret.reqs[i].url)
                  /\ ~ret.panicked

C9_Witness ==
    /\ After("RenderEnergy") /\ Is("shellyPlugV1")
    /\ Len(served) = 1 /\ Answer(1).connErr = Nil /\ Answer(1).status = 404
    /\ Len(ret.reqs) = 1
    /\ ret.err = HttpError(UrlOf("status", NoQueries), Answer(1).body)

\* C10: RenderInfo (both generations) requests shelly first and the status
\* second; when the first fetch fails the status is not requested; when
\* either fetch fails the error is returned and nothing was written.
C10_RenderInfoFailsFast ==
    After("RenderInfo") =>
        /\ Len(ret.reqs) >= 1 /\ ret.reqs[1].url.path = "shelly"
        /\ Len(served) = Len(ret.reqs)
        /\ Failed(op, served[1]) =>
              /\ Len(ret.reqs) = 1
              /\ ret.err # NoErr /\ ret.out = << >>
        /\ ~Failed(op, served[1]) =>
              /\ Len(ret.reqs) = 2
              /\ ret.reqs[2].url.path = IF Kind = "shellyPlugV2"
                                        THEN "rpc/Shelly.GetStatus" ELSE "status"
              /\ Failed(op, served[2]) => ret.err # NoErr /\ ret.out = << >>

C10_Witness ==
    /\ After("RenderInfo") /\ Is("shellyPlugV2")
    /\ Len(served) = 2 /\ ~Failed(op, served[1]) /\ Failed(op, served[2])
    /\ ret.err # NoErr /\ ret.out = << >>

\* ---- properties of the rendering operations
\* the operation was called on a client of the unified interface
Unified == plug # Nil /\ Kind \in {"shellyPlugV1", "shellyPlugV2"}

\* the path on which a client of this kind requests the status
StatusPath == IF Kind = "shellyPlugV2" THEN "rpc/Shelly.GetStatus" ELSE "status"

\* the number of requests the operation sent for path
Count(path) == Cardinality({ i \in 1..Len(ret.reqs) : ret.reqs[i].url.path = path })

\* C11 as stated: every rendering operation that completed without error
\* has fetched exactly one DeviceInfo (shelly) and exactly one DeviceStatus,
\* and no run of the program sends more than three requests.
C11_AsStated ==
    /\ Len(ret.reqs) <= 3
    /\ (pc = "done" /\ op \in {"RenderInfo", "RenderEnergy"} /\ Unified
          /\ ReportsSuccess) =>
           Count("shelly") = 1 /\ Count(StatusPath) = 1

\* C11: RenderInfo fetches the DeviceInfo once and then, only when that fetch
\* succeeded, the DeviceStatus once; RenderEnergy fetches the DeviceStatus
\* once and never the DeviceInfo; no run of the program sends more than two
\* requests, one after the other.
C11_RenderFetches ==
    /\ Len(ret.reqs) <= 2
    /\ Len(served) = Len(ret.reqs)
    /\ (After("RenderEnergy") /\ Unified) =>
           /\ Len(ret.reqs) = 1
           /\ Count(StatusPath) = 1 /\ Count("shelly") = 0
    /\ (After("RenderInfo") /\ Unified) =>
           /\ Count("shelly") = 1 /\ ret.reqs[1].url.path = "shelly"
           /\ Count(StatusPath) = (IF Failed(op, served[1]) THEN 0 ELSE 1)
           /\ Len(ret.reqs) = Count("shelly") + Count(StatusPath)
           /\ ReportsSuccess => Count(StatusPath) = 1

C11_Witness ==
    /\ After("RenderEnergy") /\ Is("shellyPlugV2")
    /\ ReportsSuccess /\ ret.out # << >>
    /\ Len(ret.reqs) = 1 /\ ret.reqs[1].url.path = "rpc/Shelly.GetStatus"

\* two rationals are the same number
RatEq(a, b) == a[1] * b[2] = b[1] * a[2]

\* the numbers printed on the text lines with this label
Printed(label) ==
    { ret.out[i].num : i \in { j \in 1..Len(ret.out) :
                                 ret.out[j].kind = "text" /\ ret.out[j].label = label } }

\* the operation wrote a text line with this label
HasLine(label) ==
    \E i \in 1..Len(ret.out) : ret.out[i].kind = "text" /\ ret.out[i].label = label

\* the operation wrote one document of this kind and nothing else
WroteOnly(kind) == Len(ret.out) = 1 /\ ret.out[1].kind = kind

\* metrics mode is what RenderEnergy is asked for: --choria without --json
MetricsMode == choriaFormat /\ ~jsonFormat

\* C12 as stated: for every second generation status with the switch and its
\* energy counters present, whatever else is present or absent, RenderEnergy
\* in metrics mode completes without error and writes
\* metrics.total_energy_kwh = switch.AEnergy.Total / 1000.
C12_AsStated ==
    (After("RenderEnergy") /\ Is("shellyPlugV2") /\ StatusDecoded /\ MetricsMode
       /\ Answer(1).body.sw # Nil /\ Deref(Answer(1).body.sw).AEnergy # Nil) =>
        /\ ReportsSuccess
        /\ WroteOnly("choria")
        /\ RatEq(ret.out[1].doc.metrics.total_energy_kwh,
                 <<Deref(Deref(Answer(1).body.sw).AEnergy).Total, 1000>>)

\* C12, what the client does: the conversion is as stated when the switch
\* also carries its temperature; without the temperature RenderEnergy
\* dereferences a nil pointer while it builds the reading, and ends in a
\* panic having written nothing.
C12_Observed ==
    (After("RenderEnergy") /\ Is("shellyPlugV2") /\ StatusDecoded /\ MetricsMode
       /\ Answer(1).body.sw # Nil /\ Deref(Answer(1).body.sw).AEnergy # Nil) =>
        LET sw == Deref(Answer(1).body.sw)
        IN IF sw.Temperature = Nil
           THEN ret.panicked /\ ret.out = << >>
           ELSE /\ ReportsSuccess
                /\ WroteOnly("choria")
                /\ RatEq(ret.out[1].doc.metrics.total_energy_kwh,
                         <<Deref(sw.AEnergy).Total, 1000>>)

\* C13: for every first generation status with one relay and one meter,
\* RenderEnergy succeeds and power_total_kwh in JSON mode is
\* meter.Total / 60000; the metrics document (today_energy_kwh), the text
\* report and RenderInfo (Total Consumption, in hundredths) use the same
\* factor.
C13_EnergyScaleV1 ==
    /\ (After("RenderEnergy") /\ Is("shellyPlugV1") /\ StatusDecoded
          /\ Len(Answer(1).body.relays) = 1 /\ Len(Answer(1).body.meters) = 1) =>
           LET kwh == <<Answer(1).body.meters[1].Total, 60000>>
           IN /\ ReportsSuccess
              /\ jsonFormat =>
                    /\ WroteOnly("json")
                    /\ RatEq(ret.out[1].doc.power_total_kwh, kwh)
              /\ MetricsMode =>
                    /\ WroteOnly("choria")
                    /\ RatEq(ret.out[1].doc.metrics.today_energy_kwh, kwh)
              /\ (~jsonFormat /\ ~choriaFormat) =>
                    Printed("Total Consumption") = { Fmt2(kwh) }
    /\ (After("RenderInfo") /\ Is("shellyPlugV1") /\ Len(served) = 2
          /\ ~Failed(op, served[1]) /\ ~Failed(op, served[2])
          /\ Len(Answer(2).body.meters) = 1) =>
           Printed("Total Consumption") =
               { Fmt2(<<Answer(2).body.meters[1].Total, 60000>>) }

C13_Witness ==
    /\ After("RenderEnergy") /\ Is("shellyPlugV1") /\ StatusDecoded /\ jsonFormat
    /\ Len(Answer(1).body.relays) = 1 /\ Len(Answer(1).body.meters) = 1
    /\ Answer(1).body.meters[1].Total = 600
    /\ ReportsSuccess /\ WroteOnly("json")
    /\ ret.out[1].doc.power_total_kwh = <<600, 60000>>

\* C14: a RenderEnergy that returned without error (either generation) wrote
\* one format only: the JSON object when --json is set, also when --choria
\* is set with it; otherwise the metrics envelope when --choria is set;
\* otherwise the text report.
C14_OneOutputFormat ==
    (After("RenderEnergy") /\ Unified /\ ReportsSuccess) =>
        /\ Len(ret.out) >= 1
        /\ \A i, j \in 1..Len(ret.out) : ret.out[i].kind = ret.out[j].kind
        /\ jsonFormat => WroteOnly("json")
        /\ MetricsMode => WroteOnly("choria")
        /\ (~jsonFormat /\ ~choriaFormat) =>
              \A i \in 1..Len(ret.out) : ret.out[i].kind = "text"

C14_Witness ==
    /\ After("RenderEnergy") /\ Is("shellyPlugV1") /\ ReportsSuccess
    /\ jsonFormat /\ choriaFormat
    /\ WroteOnly("json")

\* C15: in metrics mode the document the second generation RenderEnergy
\* writes has the two keys labels and metrics; labels is the configured
\* label set; metrics has the seven keys current_power_watt,
\* current_power_volt, current_power_ampere, current_power_frequency,
\* internal_celsius, total_energy_kwh and relay_on, with the values of the
\* switch's power, voltage, current, frequency, temperature, energy total in
\* kWh and output (1 or 0).
C15_MetricsEnvelopeV2 ==
    (After("RenderEnergy") /\ Is("shellyPlugV2") /\ StatusDecoded
       /\ MetricsMode /\ ReportsSuccess) =>
        LET sw == Deref(Answer(1).body.sw)
            doc == ret.out[1].doc
        IN /\ WroteOnly("choria")
           /\ DOMAIN doc = {"labels", "metrics"}
           /\ doc.labels = labels
           /\ DOMAIN doc.metrics =
                 {"current_power_watt", "current_power_volt", "current_power_ampere",
                  "current_power_frequency", "internal_celsius", "total_energy_kwh",
                  "relay_on"}
           /\ RatEq(doc.metrics.current_power_watt, <<sw.APower, 1>>)
           /\ RatEq(doc.metrics.current_power_volt, <<sw.Voltage, 1>>)
           /\ RatEq(doc.metrics.current_power_ampere, <<sw.Current, 1>>)
           /\ RatEq(doc.metrics.current_power_frequency, <<sw.Freq, 1>>)
           /\ RatEq(doc.metrics.internal_celsius, <<Deref(sw.Temperature).TC, 1>>)
           /\ RatEq(doc.metrics.total_energy_kwh, <<Deref(sw.AEnergy).Total, 1000>>)
           /\ RatEq(doc.metrics.relay_on, <<IF sw.Output THEN 1 ELSE 0, 1>>)

C15_Witness ==
    /\ After("RenderEnergy") /\ Is("shellyPlugV2") /\ StatusDecoded
    /\ MetricsMode /\ ReportsSuccess
    /\ labels = [location |-> "office"]
    /\ WroteOnly("choria")
    /\ ret.out[1].doc.labels = [location |-> "office"]
    /\ ret.out[1].doc.metrics.current_power_volt = <<230, 1>>
    /\ ret.out[1].doc.metrics.total_energy_kwh = <<600, 1000>>

\* C16: RenderEnergy on the first generation client, given a status whose
\* number of meters is not one, or whose number of relays differs from its
\* number of meters, returns a precondition error and has written nothing,
\* whatever the output mode.
C16_RenderEnergyPreconditionV1 ==
    (After("RenderEnergy") /\ Is("shellyPlugV1") /\ StatusDecoded) =>
        LET b == Answer(1).body
        IN /\ Len(b.meters) # 1 =>
                 /\ ret.err = Errorf("no meter information received")
                 /\ ret.out = << >> /\ ~ret.panicked
           /\ (Len(b.meters) = 1 /\ Len(b.relays) # 1) =>
                 /\ ret.err = Errorf("invalid relay information received")
                 /\ ret.out = << >> /\ ~ret.panicked

C16_Witness ==
    /\ After("RenderEnergy") /\ Is("shellyPlugV1") /\ StatusDecoded
    /\ Len(Answer(1).body.meters) = 1 /\ Len(Answer(1).body.relays) = 0
    /\ ret.err = Errorf("invalid relay information received")
    /\ ret.out = << >>

\* both fetches of RenderInfo succeeded and their bodies decode
BothFetched == Len(served) = 2 /\ ~Failed(op, served[1]) /\ ~Failed(op, served[2])

\* the sections of the RenderInfo report that precede the relay section
WroteDeviceSections ==
    /\ HasLine("Device Information") /\ HasLine("Device Status")
    /\ HasLine("Network Information") /\ HasLine("Updates Information")

\* C17 as stated: RenderInfo on the second generation client, given a status
\* without switch, succeeds and writes the identity, status, network and
\* update sections and no relay or meter section; the relay/meter section
\* is written if and only if the status has a switch.
C17_AsStated ==
    (After("RenderInfo") /\ Is("shellyPlugV2") /\ BothFetched) =>
        LET b == Answer(2).body
        IN /\ b.sw = Nil =>
                 /\ ReportsSuccess
                 /\ WroteDeviceSections
                 /\ ~HasLine("Relay Information") /\ ~HasLine("Meter Information")
           /\ HasLine("Relay Information") <=> b.sw # Nil

\* C17, what the client does: the statement holds for the statuses that
\* carry sys and wifi; without sys or without wifi RenderInfo dereferences a
\* nil pointer and ends in a panic before the update section, with or
\* without a switch.
C17_Observed ==
    (After("RenderInfo") /\ Is("shellyPlugV2") /\ BothFetched) =>
        LET b == Answer(2).body
        IN IF b.sys = Nil \/ b.wifi = Nil
           THEN /\ ret.panicked /\ ret.err = NoErr
                /\ ~HasLine("Updates Information") /\ ~HasLine("Relay Information")
           ELSE /\ b.sw = Nil =>
                      /\ ReportsSuccess
                      /\ WroteDeviceSections
                      /\ ~HasLine("Relay Information") /\ ~HasLine("Meter Information")
                /\ HasLine("Relay Information") <=> b.sw # Nil

\* C18: every request goes to the path of its operation and generation.
\* Info requests shelly; Status requests status on the first generation and
\* rpc/Shelly.GetStatus on the second; both without query.  TurnOn and
\* TurnOff request relay/0 with the query turn=on, respectively turn=off.
\* The rendering operations request what Info and Status request.
C18_WirePaths ==
    (pc = "done" /\ Unified) =>
        LET Sent(i, path, query) ==
                /\ Len(ret.reqs) >= i
                /\ ret.reqs[i].url.path = path /\ ret.reqs[i].url.query = query
        IN /\ op = "Info" => Len(ret.reqs) = 1 /\ Sent(1, "shelly", << >>)
           /\ op = "Status" =>
                 /\ Len(ret.reqs) = 1
                 /\ Kind = "shellyPlugV1" => Sent(1, "status", << >>)
                 /\ Kind = "shellyPlugV2" => Sent(1, "rpc/Shelly.GetStatus", << >>)
           /\ op = "TurnOn" =>
                 Len(ret.reqs) = 1 /\ Sent(1, "relay/0", << <<"turn", "on">> >>)
           /\ op = "TurnOff" =>
                 Len(ret.reqs) = 1 /\ Sent(1, "relay/0", << <<"turn", "off">> >>)
           /\ op = "RenderEnergy" =>
                 /\ Len(ret.reqs) = 1
                 /\ Kind = "shellyPlugV1" => Sent(1, "status", << >>)
                 /\ Kind = "shellyPlugV2" => Sent(1, "rpc/Shelly.GetStatus", << >>)
           /\ op = "RenderInfo" =>
                 /\ Sent(1, "shelly", << >>)
                 /\ Len(ret.reqs) = 2 =>
                       /\ Kind = "shellyPlugV1" => Sent(2, "status", << >>)
                       /\ Kind = "shellyPlugV2" => Sent(2, "rpc/Shelly.GetStatus", << >>)

C18_Witness ==
    /\ After("Status") /\ Is("shellyPlugV2")
    /\ Len(ret.reqs) = 1
    /\ ret.reqs[1].url.path = "rpc/Shelly.GetStatus"
    /\ ret.reqs[1].url.query = << >>
    /\ ret.err = NoErr /\ ret.data # Nil

\* the energy totals a rendering operation wrote, as rationals (a text line
\* carries hundredths)
RenderedTotals ==
    { <<n, 100>> : n \in Printed("Total Consumption") }
    \cup { ret.out[i].doc.power_total_kwh :
             i \in { j \in 1..Len(ret.out) : ret.out[j].kind = "json" } }
    \cup { IF Kind = "shellyPlugV2" THEN ret.out[i].doc.metrics.total_energy_kwh
                                    ELSE ret.out[i].doc.metrics.today_energy_kwh :
             i \in { j \in 1..Len(ret.out) : ret.out[j].kind = "choria" } }

\* C19 as stated: for every status a client accepts, the energy total that
\* RenderEnergy or RenderInfo writes (power_total_kwh, total_energy_kwh,
\* Total Consumption) is not negative.
C19_AsStated ==
    (pc = "done" /\ op \in {"RenderInfo", "RenderEnergy"} /\ Unified) =>
        \A t \in RenderedTotals : t[1] >= 0

\* the energy total of the status the device sent, when it has one
DeviceTotals ==
    LET b == served[Len(served)].body
    IN IF Kind = "shellyPlugV2"
       THEN IF b.sw # Nil /\ Deref(b.sw).AEnergy # Nil
            THEN { Deref(Deref(b.sw).AEnergy).Total } ELSE { }
       ELSE IF Len(b.meters) >= 1 THEN { b.meters[1].Total } ELSE { }

\* C19, what the clients do: the total is decoded into a signed number and
\* written without a check, so what is written has the sign of what the
\* device sent: negative exactly when the device's total is negative.
C19_Observed ==
    (pc = "done" /\ op \in {"RenderInfo", "RenderEnergy"} /\ Unified) =>
        \A t \in RenderedTotals :
            /\ DeviceTotals # { }
            /\ \A d \in DeviceTotals : (t[1] < 0) <=> (d < 0)

\* C20: RenderInfo on the first generation client succeeds whatever the
\* numbers of relays and meters.  It writes the relay section exactly when
\* the status has one relay and the meter section exactly when it has one
\* meter, each independently of the other, and the timer details (started,
\* duration, remaining) exactly when that relay has a timer.
C20_RenderInfoSectionsV1 ==
    (After("RenderInfo") /\ Is("shellyPlugV1") /\ BothFetched) =>
        LET b == Answer(2).body
            oneRelay == Len(b.relays) = 1
            oneMeter == Len(b.meters) = 1
        IN /\ ReportsSuccess
           /\ WroteDeviceSections
           /\ \A l \in {"Relay Information", "Power Status", "Timer"} :
                 HasLine(l) <=> oneRelay
           /\ \A l \in {"Meter Information", "Power", "Total Consumption"} :
                 HasLine(l) <=> oneMeter
           /\ \A l \in {"Started", "Duration", "Remaining"} :
                 HasLine(l) <=> (oneRelay /\ b.relays[1].HasTimer)

C20_Witness ==
    /\ After("RenderInfo") /\ Is("shellyPlugV1") /\ BothFetched
    /\ Len(Answer(2).body.relays) = 1 /\ Answer(2).body.relays[1].HasTimer
    /\ Len(Answer(2).body.meters) = 2
    /\ ReportsSuccess
    /\ HasLine("Relay Information") /\ HasLine("Remaining")
    /\ ~HasLine("Meter Information")

\* ---- properties of the commands
\* C21: the on command prints "Device turned on", and the off command
\* "Device turned off", exactly when the construction of the client and
\* TurnOn, respectively TurnOff, both returned without error: the client was
\* constructed, the request was answered and the echo decodes and reports
\* the commanded state.  Otherwise nothing is printed and the command
\* returns the error of the step that failed.
C21_ConfirmationAfterSuccess ==
    (op \in {"onAction", "offAction"}) =>
        LET turn == IF op = "onAction" THEN "on" ELSE "off"
            method == IF op = "onAction" THEN "TurnOn" ELSE "TurnOff"
            msg == IF op = "onAction" THEN "Device turned on" ELSE "Device turned off"
            constructed == ctor = "newPlug" => ~v2Plus
            r == served[1]
            fetched == Arrived(r) /\ r.body.syntax /\ r.body.ison # "badtype"
            echoOn == r.body.ison = "true"
            turned == fetched /\ (echoOn <=> op = "onAction")
        IN /\ ret.out \in { << >>, << Line(msg, 0) >> }
           /\ ret.out # << >> <=> ret.err = NoErr
           /\ ret.out # << >> <=> (constructed /\ Len(served) = 1 /\ turned)
           /\ ~ret.panicked
           /\ ~constructed =>
                 /\ ret.reqs = << >> /\ served = << >> /\ pc = "failed"
                 /\ ret.err = Errorf("shelly V2+ devices are not supported yet")
           /\ constructed =>
                 /\ Len(ret.reqs) = 1 /\ Len(served) = 1 /\ pc = "done"
                 /\ ~fetched =>
                       ret.err = FetchError(method, r, UrlOf("relay/0", TurnQuery(turn)))
                 /\ (fetched /\ ~turned) =>
                       ret.err = Errorf(IF op = "onAction" THEN "relay is not on"
                                        ELSE "relay is on")

C21_Witness ==
    /\ op = "offAction" /\ ctor = "newPlug" /\ pc = "done"
    /\ Len(served) = 1 /\ Arrived(served[1]) /\ served[1].body.ison = "false"
    /\ ret.err = NoErr
    /\ ret.out = << Line("Device turned off", 0) >>

\* C22 as stated: RenderInfo and RenderEnergy on the second generation
\* client never end in a panic: whatever sub-structures the decoded status
\* lacks, each returns an error or returns normally.
C22_AsStated ==
    (pc = "done" /\ op \in {"RenderInfo", "RenderEnergy"} /\ Is("shellyPlugV2")) =>
        ~ret.panicked

\* C22, what the client does: RenderEnergy ends in a nil pointer dereference
\* exactly when the switch and its energy counters are present and the
\* temperature is not; RenderInfo exactly when sys or wifi is absent, or the
\* switch is present without its energy counters or its temperature.  A
\* panic returns no error.
C22_Observed ==
    /\ (After("RenderEnergy") /\ Is("shellyPlugV2")) =>
           /\ ret.panicked <=>
                 /\ StatusDecoded
                 /\ Answer(1).body.sw # Nil
                 /\ Deref(Answer(1).body.sw).AEnergy # Nil
                 /\ Deref(Answer(1).body.sw).Temperature = Nil
           /\ ret.panicked => ret.err = NoErr /\ ret.out = << >>
    /\ (After("RenderInfo") /\ Is("shellyPlugV2")) =>
           /\ ret.panicked <=>
                 /\ BothFetched
                 /\ \/ Answer(2).body.sys = Nil
                    \/ Answer(2).body.wifi = Nil
                    \/ /\ Answer(2).body.sw # Nil
                       /\ \/ Deref(Answer(2).body.sw).AEnergy = Nil
                          \/ Deref(Answer(2).body.sw).Temperature = Nil
           /\ ret.panicked => ret.err = NoErr /\ ret.out # << >>

====
